---------------------------- MODULE Spec2Model ----------------------------
(***************************************************************************)
(* A model of package manifest (src/manifest/index.go): the WixManifest    *)
(* structure and its operations Load, SetGuids, NeedGuid,                  *)
(* RewriteFilePaths and Normalize.                                         *)
(*                                                                         *)
(* Representation of Go strings.  A string whose content the code          *)
(* inspects or builds is a sequence: a version string is a sequence of     *)
(* one-character strings, a path is a sequence of path elements (the root  *)
(* "/" being the first element of an absolute path), a GUID is a sequence  *)
(* of naturals, the choco tag string is a sequence of chunks.  The empty   *)
(* Go string "" is the empty sequence << >>.  A string the code only       *)
(* copies or compares with "" (Product, Company, the choco texts) is a     *)
(* TLA+ string.                                                            *)
(***************************************************************************)
EXTENDS Integers, Sequences, FiniteSets, TLC

VARIABLES
    wixFile,    \* the *WixManifest receiver of every method
    orig,       \* the manifest as it was constructed (never assigned again)
    nextGuid,   \* the identifier generator: the next fresh token
    log         \* the calls made so far, each with what it returned

vars == <<wixFile, orig, nextGuid, log>>

(***************************************************************************)
(* Bounds of the model.                                                    *)
(***************************************************************************)
MaxCalls == 3      \* method calls in one behaviour
MaxLen == 2        \* length of Files.Items, Directories, Shortcuts.Items
MaxNum == 2        \* largest version number drawn for major/minor/patch
MaxLoads == 2      \* Load calls in one behaviour
MaxKeys == 1       \* Load: documents with at most this many keys present,
                   \* and documents with at most this many keys absent

Nil == "nil"       \* Go's nil error

Last(s) == s[Len(s)]

RECURSIVE SeqsUpTo(_, _)
SeqsUpTo(S, n) ==
    IF n = 0 THEN {<< >>}
    ELSE LET shorter == SeqsUpTo(S, n - 1)
         IN  shorter \cup {Append(s, x) : s \in shorter, x \in S}

(***************************************************************************)
(* The zero value of the structures (lines 14-73).                         *)
(***************************************************************************)
ZeroChoco ==
    [Id |-> "", Title |-> "", Authors |-> "", Owners |-> "",
     Description |-> "", ProjectUrl |-> "", Tags |-> << >>,
     LicenseUrl |-> "", IconUrl |-> "", RequireLicense |-> FALSE,
     MsiFile |-> "", BuildDir |-> "", ChangeLog |-> ""]

ZeroManifest ==
    [Product |-> "", Company |-> "", Version |-> << >>, VersionOk |-> << >>,
     License |-> "", UpgradeCode |-> << >>,
     Files |-> [Guid |-> << >>, Items |-> << >>],
     Directories |-> << >>, RelDirs |-> << >>,
     Env |-> [Guid |-> << >>, Vars |-> << >>],
     Shortcuts |-> [Guid |-> << >>, Items |-> << >>],
     Choco |-> ZeroChoco]

WixEnv(name) ==
    [Name |-> name, Value |-> "v", Permanent |-> "no", System |-> "no",
     Action |-> "set", Part |-> "all"]

WixShortcut(name, icon) ==
    [Name |-> name, Description |-> "d", Target |-> "t", WDir |-> "w",
     Arguments |-> "", Icon |-> icon]

(***************************************************************************)
(* One entry of the call log: the method, its error result, its boolean    *)
(* result (SetGuids' updated, NeedGuid's need) and the number of calls it  *)
(* made to the identifier generator.  CallWith adds the arguments of a     *)
(* method that takes some.                                                 *)
(***************************************************************************)
CallWith(op, err, flag, made, arg) ==
    [op |-> op, err |-> err, flag |-> flag, made |-> made, arg |-> arg]

Call(op, err, flag, made) == CallWith(op, err, flag, made, << >>)

Called(op) == Len(log) > 0 /\ Last(log).op = op

(***************************************************************************)
(* guid.Make: the identifier generator.  A success returns a fresh,        *)
(* non-empty token; a failure returns the empty string and an error.       *)
(***************************************************************************)
Make(n, fails) ==
    IF fails THEN [val |-> << >>, err |-> "GenerationError"]
    ELSE [val |-> <<n>>, err |-> Nil]

(***************************************************************************)
(* SetGuids (lines 113-145).  st is the state of the call: the manifest w, *)
(* the generator's next token, the generator calls made, the local         *)
(* variable updated, and, once the method has returned, its results.       *)
(* failAt is the generator call (1, 2, ...) that fails in this call, 0     *)
(* for none.                                                               *)
(***************************************************************************)
SetGuidsEntry(w, next) ==
    [w |-> w, next |-> next, made |-> 0, updated |-> FALSE,
     returned |-> FALSE, changed |-> FALSE, err |-> Nil]

UpgradeCodeMissing(w) == w.UpgradeCode = << >>
FilesGuidMissing(w) == w.Files.Guid = << >>

\* "||" written for "&&".
EnvGuidMissingOr(w) == w.Env.Guid = << >> \/ Len(w.Env.Vars) > 0

EnvGuidMissing(w) == w.Env.Guid = << >> /\ Len(w.Env.Vars) > 0
ShortcutsGuidMissing(w) ==
    w.Shortcuts.Guid = << >> /\ Len(w.Shortcuts.Items) > 0

\* The condition of the block of a slot (lines 116, 123, 130, 137).
SlotMissing(w, slot) ==
    CASE slot = "UpgradeCode" -> UpgradeCodeMissing(w)
      [] slot = "Files.Guid" -> FilesGuidMissing(w)
      [] slot = "Env.Guid" -> EnvGuidMissing(w)
      [] slot = "Shortcuts.Guid" -> ShortcutsGuidMissing(w)

\* The assignment of the block of a slot (lines 117, 124, 131, 138).
AssignSlot(w, slot, v) ==
    CASE slot = "UpgradeCode" -> [w EXCEPT !.UpgradeCode = v]
      [] slot = "Files.Guid" -> [w EXCEPT !.Files.Guid = v]
      [] slot = "Env.Guid" -> [w EXCEPT !.Env.Guid = v]
      [] slot = "Shortcuts.Guid" -> [w EXCEPT !.Shortcuts.Guid = v]

\* A block in which a generator failure does not end the call.
GuidBlockNoAbort(st, slot, failAt) ==
    IF st.returned \/ ~SlotMissing(st.w, slot) THEN st
    ELSE LET m == Make(st.next, failAt = st.made + 1)
             w == AssignSlot(st.w, slot, m.val)
         IN  IF m.err # Nil
             THEN [st EXCEPT !.w = w, !.made = @ + 1, !.err = m.err]
             ELSE [st EXCEPT !.w = w, !.made = @ + 1, !.next = @ + 1,
                             !.updated = TRUE]

\* One block "if <slot is missing> { slot, err = guid.Make(); if err != nil
\* { return false, err }; updated = true }".  The slot is assigned the
\* generator's value before the error is looked at.
GuidBlock(st, slot, failAt) ==
    IF st.returned \/ ~SlotMissing(st.w, slot) THEN st
    ELSE LET m == Make(st.next, failAt = st.made + 1)
             w == AssignSlot(st.w, slot, m.val)
         IN  IF m.err # Nil
             THEN [st EXCEPT !.w = w, !.made = @ + 1, !.returned = TRUE,
                             !.changed = FALSE, !.err = m.err]
             ELSE [st EXCEPT !.w = w, !.made = @ + 1, !.next = @ + 1,
                             !.updated = TRUE]

\* Line 144: return updated, nil.
SetGuidsReturn(st) ==
    IF st.returned THEN st
    ELSE [st EXCEPT !.returned = TRUE, !.changed = st.updated, !.err = Nil]

SetGuidsRun(w, next, failAt) ==
    LET s0 == SetGuidsEntry(w, next)
        s1 == GuidBlock(s0, "UpgradeCode", failAt)
        s2 == GuidBlock(s1, "Files.Guid", failAt)
        s3 == GuidBlock(s2, "Env.Guid", failAt)
        s4 == GuidBlock(s3, "Shortcuts.Guid", failAt)
    IN  SetGuidsReturn(s4)

SetGuids ==
    /\ Len(log) < MaxCalls
    /\ \E failAt \in 0..4 :
         LET st == SetGuidsRun(wixFile, nextGuid, failAt)
         IN  /\ wixFile' = st.w
             /\ nextGuid' = st.next
             /\ UNCHANGED orig
             /\ log' = Append(log, Call("SetGuids", st.err, st.changed, st.made))

(***************************************************************************)
(* NeedGuid (lines 148-163).                                               *)
(***************************************************************************)
\* The environment section's test without its "at least one variable".
NeedGuidRunNoLen(w) ==
    LET n0 == FALSE
        n1 == IF w.UpgradeCode = << >> THEN TRUE ELSE n0
        n2 == IF w.Files.Guid = << >> THEN TRUE ELSE n1
        n3 == IF w.Env.Guid = << >> THEN TRUE ELSE n2
        n4 == IF w.Shortcuts.Guid = << >> /\ Len(w.Shortcuts.Items) > 0
              THEN TRUE ELSE n3
    IN  n4

NeedGuidRun(w) ==
    LET n0 == FALSE
        n1 == IF w.UpgradeCode = << >> THEN TRUE ELSE n0
        n2 == IF w.Files.Guid = << >> THEN TRUE ELSE n1
        n3 == IF w.Env.Guid = << >> /\ Len(w.Env.Vars) > 0 THEN TRUE ELSE n2
        n4 == IF w.Shortcuts.Guid = << >> /\ Len(w.Shortcuts.Items) > 0
              THEN TRUE ELSE n3
    IN  n4

NeedGuid ==
    /\ Len(log) < MaxCalls
    /\ log' = Append(log, Call("NeedGuid", Nil, NeedGuidRun(wixFile), 0))
    /\ UNCHANGED <<wixFile, orig, nextGuid>>

(***************************************************************************)
(* The identifier provisioner on its own: any manifest whose identifier    *)
(* slots are empty or hold an identifier set earlier, with and without     *)
(* environment variables and shortcuts.                                    *)
(***************************************************************************)
OldGuid == <<0>>

GuidManifests ==
    {[ZeroManifest EXCEPT
        !.UpgradeCode = u, !.Files.Guid = f,
        !.Env = [Guid |-> e, Vars |-> ev],
        !.Shortcuts = [Guid |-> s, Items |-> si]] :
      u \in {<< >>, OldGuid}, f \in {<< >>, OldGuid},
      e \in {<< >>, OldGuid}, s \in {<< >>, OldGuid},
      ev \in {<< >>, <<WixEnv("PATH")>>},
      si \in {<< >>, <<WixShortcut("app", << >>)>>}}

InitGuids ==
    /\ wixFile \in GuidManifests
    /\ orig = wixFile
    /\ nextGuid = 1
    /\ log = << >>

NextGuids == SetGuids \/ NeedGuid

SpecGuids == InitGuids /\ [][NextGuids]_vars

(***************************************************************************)
(* Strings of characters: the version strings.                             *)
(***************************************************************************)
Digits == <<"0", "1", "2", "3", "4", "5", "6", "7", "8", "9">>
DigitChars == {Digits[i] : i \in 1..10}
Letters ==
    {"a", "b", "c", "d", "e", "f", "g", "h", "i", "j", "k", "l", "m",
     "n", "o", "p", "q", "r", "s", "t", "u", "v", "w", "x", "y", "z",
     "A", "B", "C", "D", "E", "F", "G", "H", "I", "J", "K", "L", "M",
     "N", "O", "P", "Q", "R", "S", "T", "U", "V", "W", "X", "Y", "Z"}

\* The index of the first c in s, 0 when there is none.
IndexOf(s, c) ==
    IF \E i \in 1..Len(s) : s[i] = c
    THEN CHOOSE i \in 1..Len(s) : s[i] = c /\ \A j \in 1..(i - 1) : s[j] # c
    ELSE 0

\* strings.Split(s, sep) for a one-character sep.
RECURSIVE Split(_, _)
Split(s, sep) ==
    LET i == IndexOf(s, sep)
    IN  IF i = 0 THEN <<s>>
        ELSE <<SubSeq(s, 1, i - 1)>> \o Split(SubSeq(s, i + 1, Len(s)), sep)

\* strconv.FormatInt(n, 10) of n >= 0.
RECURSIVE FormatInt(_)
FormatInt(n) ==
    IF n < 10 THEN <<Digits[n + 1]>>
    ELSE Append(FormatInt(n \div 10), Digits[(n % 10) + 1])

\* strconv.ParseInt(s, 10, 64) of a non-empty string of digits (the values
\* of the model are far below the 64 bits where ParseInt reports a range
\* error).
RECURSIVE ParseInt(_)
ParseInt(s) ==
    IF Len(s) = 0 THEN 0
    ELSE 10 * ParseInt(SubSeq(s, 1, Len(s) - 1))
           + (CHOOSE d \in 0..9 : Digits[d + 1] = s[Len(s)])

(***************************************************************************)
(* semver.NewVersion (called at line 216).  The library matches the whole  *)
(* string against its pattern: an optional "v"; one to three numbers       *)
(* ([0-9]+) separated by "."; optionally "-" and a pre-release; optionally *)
(* "+" and the metadata, a pre-release and the metadata each being one or  *)
(* more identifiers ([0-9A-Za-z-]+) separated by ".".  It then parses the  *)
(* numbers; a missing minor or patch is 0.  "+" is in no other part, so    *)
(* the metadata starts at the first "+"; "-" is in no part of the numeric  *)
(* core, so the pre-release starts at the first "-" before the metadata.   *)
(***************************************************************************)
IsNumber(s) == Len(s) > 0 /\ \A i \in 1..Len(s) : s[i] \in DigitChars

IsIdent(s) ==
    Len(s) > 0 /\ \A i \in 1..Len(s) : s[i] \in DigitChars \cup Letters \cup {"-"}

IsIdentList(s) == \A i \in 1..Len(Split(s, ".")) : IsIdent(Split(s, ".")[i])

NewVersion(v) ==
    LET plus == IndexOf(v, "+")
        body == IF plus = 0 THEN v ELSE SubSeq(v, 1, plus - 1)
        meta == IF plus = 0 THEN << >> ELSE SubSeq(v, plus + 1, Len(v))
        dash == IndexOf(body, "-")
        core == IF dash = 0 THEN body ELSE SubSeq(body, 1, dash - 1)
        pre == IF dash = 0 THEN << >> ELSE SubSeq(body, dash + 1, Len(body))
        nums == Split(IF Len(core) > 0 /\ core[1] = "v" THEN Tail(core)
                      ELSE core, ".")
        matches ==
            /\ Len(nums) \in 1..3
            /\ \A i \in 1..Len(nums) : IsNumber(nums[i])
            /\ dash # 0 => IsIdentList(pre)
            /\ plus # 0 => IsIdentList(meta)
    IN  IF ~matches
        THEN [err |-> "ErrInvalidSemVer", major |-> 0, minor |-> 0,
              patch |-> 0, pre |-> << >>, metadata |-> << >>]
        ELSE [err |-> Nil,
              major |-> ParseInt(nums[1]),
              minor |-> IF Len(nums) >= 2 THEN ParseInt(nums[2]) ELSE 0,
              patch |-> IF Len(nums) >= 3 THEN ParseInt(nums[3]) ELSE 0,
              pre |-> pre, metadata |-> meta]

(***************************************************************************)
(* Normalize (lines 208-245).                                              *)
(***************************************************************************)
\* Lines 220-223, with the minor number written twice.
OkVersionMinorTwice(v) ==
    FormatInt(v.major) \o <<".">> \o FormatInt(v.minor)
      \o <<".">> \o FormatInt(v.minor)

\* Lines 220-223: okVersion.
OkVersion(v) ==
    FormatInt(v.major) \o <<".">> \o FormatInt(v.minor)
      \o <<".">> \o FormatInt(v.patch)

\* Lines 226-241, with the authors taken from the product name.
ChocoFixAuthorsProduct(w) ==
    LET c0 == w.Choco
        c1 == IF c0.Id = "" THEN [c0 EXCEPT !.Id = w.Product] ELSE c0
        c2 == IF c1.Title = "" THEN [c1 EXCEPT !.Title = w.Product] ELSE c1
        c3 == IF c2.Authors = "" THEN [c2 EXCEPT !.Authors = w.Product] ELSE c2
        c4 == IF c3.Owners = "" THEN [c3 EXCEPT !.Owners = w.Company] ELSE c3
        c5 == IF c4.Description = ""
              THEN [c4 EXCEPT !.Description = w.Product] ELSE c4
    IN  [w EXCEPT !.Choco = c5]

\* Lines 226-241: the choco defaults.
ChocoFix(w) ==
    LET c0 == w.Choco
        c1 == IF c0.Id = "" THEN [c0 EXCEPT !.Id = w.Product] ELSE c0
        c2 == IF c1.Title = "" THEN [c1 EXCEPT !.Title = w.Product] ELSE c1
        c3 == IF c2.Authors = "" THEN [c2 EXCEPT !.Authors = w.Company] ELSE c2
        c4 == IF c3.Owners = "" THEN [c3 EXCEPT !.Owners = w.Company] ELSE c3
        c5 == IF c4.Description = ""
              THEN [c4 EXCEPT !.Description = w.Product] ELSE c4
    IN  [w EXCEPT !.Choco = c5]

\* Line 242, appending the token only when the tag string is empty.
AddAdminTagOnce(w) ==
    IF w.Choco.Tags = << >> THEN [w EXCEPT !.Choco.Tags = Append(@, " admin")]
    ELSE w

\* Line 242: Tags += " admin".
AddAdminTag(w) == [w EXCEPT !.Choco.Tags = Append(@, " admin")]

NormalizeRun(w) ==
    LET w1 == [w EXCEPT !.VersionOk = w.Version]
        v == NewVersion(w1.Version)
    IN  IF v.err # Nil THEN [w |-> w1, err |-> v.err]
        ELSE [w |-> AddAdminTag(ChocoFix([w1 EXCEPT !.VersionOk = OkVersion(v)])),
              err |-> Nil]

Normalize ==
    /\ Len(log) < MaxCalls
    /\ LET r == NormalizeRun(wixFile)
       IN  /\ wixFile' = r.w
           /\ log' = Append(log, Call("Normalize", r.err, FALSE, 0))
    /\ UNCHANGED <<orig, nextGuid>>

(***************************************************************************)
(* The version strings of the model.  SemVers holds, for every numeric     *)
(* core and every pre-release and build-metadata suffix drawn, the version *)
(* string and its numbers; OtherVersions holds strings that are no         *)
(* complete semantic version.                                              *)
(***************************************************************************)
Str_beta == <<"b", "e", "t", "a">>
Str_rc1 == <<"r", "c", "1">>
Str_001 == <<"0", "0", "1">>

Nums == (0..MaxNum) \cup {12, 305}
PreReleases == {<< >>, Str_beta, Str_rc1, <<"a", ".", "1", "-", "x">>}
Builds == {<< >>, Str_001, <<"b", ".", "7", "-", "2">>}

SemVerString(major, minor, patch, pre, build) ==
    FormatInt(major) \o <<".">> \o FormatInt(minor) \o <<".">>
      \o FormatInt(patch)
      \o (IF pre = << >> THEN << >> ELSE <<"-">> \o pre)
      \o (IF build = << >> THEN << >> ELSE <<"+">> \o build)

SemVers ==
    {[version |-> SemVerString(ma, mi, pa, pre, build),
      major |-> ma, minor |-> mi, patch |-> pa] :
       ma \in Nums, mi \in Nums, pa \in Nums,
       pre \in PreReleases, build \in Builds}

OtherVersions ==
    {<< >>,
     <<"1">>,
     <<"1", ".", "2">>,
     <<"v", "1", ".", "2", ".", "3">>,
     <<"0", "1", ".", "2", ".", "3">>,
     <<"v">>,
     <<"a", "b", "c">>,
     <<"1", ".", "2", ".", "x">>,
     <<"1", ".", ".", "3">>,
     <<"1", ".", "2", ".", "3", ".", "4">>,
     <<"1", ".", "2", ".", "3", "-">>,
     <<"1", ".", "2", ".", "3", "+">>,
     <<"1", ".", "2", ".", "3", "-", "a", ".", ".", "b">>,
     <<"1", ".", "2", ".", "3", "+", "a", "+", "b">>,
     <<"1", ".", "2", ".", "3", "-", "r", "c", "_", "1">>,
     <<"1", ".", "2", "-", "r", "c", "1">>,
     <<" ", "1", ".", "2", ".", "3">>}

Versions == {e.version : e \in SemVers} \cup OtherVersions

InitVersion ==
    /\ wixFile \in {[ZeroManifest EXCEPT !.Product = "App",
                       !.Company = "Acme", !.Version = v] : v \in Versions}
    /\ orig = wixFile
    /\ nextGuid = 1
    /\ log = << >>

NextVersion == Normalize

SpecVersion == InitVersion /\ [][NextVersion]_vars

(***************************************************************************)
(* The packaging metadata: every combination of empty and set choco texts. *)
(***************************************************************************)
ChocoManifests ==
    {[ZeroManifest EXCEPT
        !.Product = product, !.Company = "Acme", !.Version = version,
        !.License = other, 
        !.Choco = [ZeroChoco EXCEPT
            !.Id = id, !.Title = title, !.Authors = authors,
            !.Owners = owners, !.Description = description,
            !.ProjectUrl = other, !.LicenseUrl = other, !.IconUrl = other,
            !.RequireLicense = (other # ""), !.Tags = tags]] :
      product \in {"", "App"},
      version \in {<<"1", ".", "2", ".", "3">>,
                   <<"1", ".", "2", ".", "3", "-">> \o Str_rc1,
                   <<"a", "b", "c">>},
      id \in {"", "id"}, title \in {"", "title"}, authors \in {"", "me"},
      owners \in {"", "us"}, description \in {"", "text"},
      other \in {"", "set"},
      tags \in {<< >>, <<"cli">>}}

InitChoco ==
    /\ wixFile \in ChocoManifests
    /\ orig = wixFile
    /\ nextGuid = 1
    /\ log = << >>

NextChoco == Normalize

SpecChoco == InitChoco /\ [][NextChoco]_vars

(***************************************************************************)
(* Paths (package path/filepath, Unix).  A path is the sequence of its     *)
(* elements; an absolute path starts with the element "/".                 *)
(***************************************************************************)
Root == "/"

IsAbs(p) == Len(p) > 0 /\ p[1] = Root

\* filepath.Clean: "." elements are dropped, ".." removes the element before
\* it (at the root it is dropped, at the start of a relative path it is
\* kept); the empty result is "." for a relative path.
RECURSIVE CleanElems(_, _, _)
CleanElems(done, rest, rooted) ==
    IF rest = << >> THEN done
    ELSE LET e == Head(rest)
             next ==
               IF e = "." THEN done
               ELSE IF e = ".."
                    THEN IF Len(done) > 0 /\ Last(done) # ".."
                         THEN SubSeq(done, 1, Len(done) - 1)
                         ELSE IF rooted THEN done ELSE Append(done, "..")
                    ELSE Append(done, e)
         IN  CleanElems(next, Tail(rest), rooted)

Clean(p) ==
    IF IsAbs(p) THEN <<Root>> \o CleanElems(<< >>, Tail(p), TRUE)
    ELSE LET c == CleanElems(<< >>, p, FALSE)
         IN  IF c = << >> THEN <<".">> ELSE c

\* filepath.Abs: an absolute path is cleaned; any other is joined to the
\* working directory, and os.Getwd may fail.
Abs(p, env) ==
    IF IsAbs(p) THEN [path |-> Clean(p), err |-> Nil]
    ELSE IF env.getwdFails THEN [path |-> << >>, err |-> "GetwdError"]
    ELSE [path |-> Clean(env.cwd \o p), err |-> Nil]

\* The number of leading elements b and t share.
RECURSIVE CommonPrefix(_, _)
CommonPrefix(b, t) ==
    IF b = << >> \/ t = << >> \/ Head(b) # Head(t) THEN 0
    ELSE 1 + CommonPrefix(Tail(b), Tail(t))

\* filepath.Rel(basepath, targpath): "." for equal paths, an error when only
\* one of the two is absolute or when the base would have to leave a "..",
\* else one ".." for each element of the base after the common prefix,
\* followed by the rest of the target.  (The method passes it an absolute
\* target, the result of Abs.)  cb and targ are the cleaned paths, base is
\* cb with "." made empty, k the length of the common prefix.
RelResult(cb, base, targ, k) ==
    IF targ = cb THEN [path |-> <<".">>, err |-> Nil]
    ELSE IF IsAbs(base) # IsAbs(targ)
              \/ (k < Len(base) /\ base[k + 1] = "..")
         THEN [path |-> << >>, err |-> "RelError"]
         ELSE [path |-> [i \in 1..(Len(base) - k) |-> ".."]
                          \o SubSeq(targ, k + 1, Len(targ)),
               err |-> Nil]

RelFrom(cb, base, targ) == RelResult(cb, base, targ, CommonPrefix(base, targ))

RelClean(cb, targ) == RelFrom(cb, IF cb = <<".">> THEN << >> ELSE cb, targ)

Rel(basepath, targpath) == RelClean(Clean(basepath), Clean(targpath))

(***************************************************************************)
(* RewriteFilePaths (lines 167-203).  Each loop is a recursion on the      *)
(* index i of the element it is at; r is the manifest so far and the error *)
(* with which the method has returned, Nil while it has not.               *)
(***************************************************************************)
\* Lines 169-178.
RECURSIVE RewriteFiles(_, _, _, _)
RewriteFiles(w, out, env, i) ==
    IF i > Len(w.Files.Items) THEN [w |-> w, err |-> Nil]
    ELSE LET file == Abs(w.Files.Items[i], env)
         IN  IF file.err # Nil THEN [w |-> w, err |-> file.err]
             ELSE LET rel == Rel(out, file.path)
                      w2 == [w EXCEPT !.Files.Items[i] = rel.path]
                  IN  IF rel.err # Nil THEN [w |-> w2, err |-> rel.err]
                      ELSE RewriteFiles(w2, out, env, i + 1)

\* Lines 179-189, with the directory overwritten in place as a file is.
RECURSIVE RewriteDirsInPlace(_, _, _, _)
RewriteDirsInPlace(w, out, env, i) ==
    IF i > Len(w.Directories) THEN [w |-> w, err |-> Nil]
    ELSE LET d == Abs(w.Directories[i], env)
         IN  IF d.err # Nil THEN [w |-> w, err |-> d.err]
             ELSE LET r == Rel(out, d.path)
                  IN  IF r.err # Nil THEN [w |-> w, err |-> r.err]
                      ELSE RewriteDirsInPlace(
                             [w EXCEPT !.Directories[i] = r.path],
                             out, env, i + 1)

\* Lines 179-189.
RECURSIVE RewriteDirs(_, _, _, _)
RewriteDirs(w, out, env, i) ==
    IF i > Len(w.Directories) THEN [w |-> w, err |-> Nil]
    ELSE LET d == Abs(w.Directories[i], env)
         IN  IF d.err # Nil THEN [w |-> w, err |-> d.err]
             ELSE LET r == Rel(out, d.path)
                  IN  IF r.err # Nil THEN [w |-> w, err |-> r.err]
                      ELSE RewriteDirs(
                             [w EXCEPT !.RelDirs = Append(@, r.path)],
                             out, env, i + 1)

\* Lines 190-201.
RECURSIVE RewriteIcons(_, _, _, _)
RewriteIcons(w, out, env, i) ==
    IF i > Len(w.Shortcuts.Items) THEN [w |-> w, err |-> Nil]
    ELSE IF w.Shortcuts.Items[i].Icon = << >>
         THEN RewriteIcons(w, out, env, i + 1)
         ELSE LET file == Abs(w.Shortcuts.Items[i].Icon, env)
              IN  IF file.err # Nil THEN [w |-> w, err |-> file.err]
                  ELSE LET rel == Rel(out, file.path)
                           w2 == [w EXCEPT
                                    !.Shortcuts.Items[i].Icon = rel.path]
                       IN  IF rel.err # Nil THEN [w |-> w2, err |-> rel.err]
                           ELSE RewriteIcons(w2, out, env, i + 1)

RewriteFilePathsRun(w, out, env) ==
    LET r1 == RewriteFiles(w, out, env, 1)
        r2 == IF r1.err # Nil THEN r1 ELSE RewriteDirs(r1.w, out, env, 1)
        r3 == IF r2.err # Nil THEN r2 ELSE RewriteIcons(r2.w, out, env, 1)
    IN  r3

\* The output directories and the working directories of the calls.
OutDirs == {<<Root, "build", "out">>, <<"out">>}
WorkDirs == {<<Root, "build">>, <<Root, "home">>}

RewriteFilePaths ==
    /\ Len(log) < MaxCalls
    /\ \E out \in OutDirs, cwd \in WorkDirs, getwdFails \in BOOLEAN :
         LET env == [cwd |-> cwd, getwdFails |-> getwdFails]
             r == RewriteFilePathsRun(wixFile, out, env)
         IN  /\ wixFile' = r.w
             /\ log' = Append(log, CallWith("RewriteFilePaths", r.err, FALSE,
                                            0, [out |-> out, env |-> env]))
    /\ UNCHANGED <<orig, nextGuid>>

(***************************************************************************)
(* The path normalizer on its own: manifests with files, directories and   *)
(* shortcuts, absolute and relative, RelDirs empty as after construction.  *)
(***************************************************************************)
FilePath == <<Root, "build", "out", "sub", "a.txt">>
SrcPath == <<"src", "b">>
IconPath == <<"..", "res", "app.ico">>

PathManifests ==
    {[ZeroManifest EXCEPT
        !.Files.Items = files, !.Directories = dirs,
        !.Shortcuts.Items = shortcuts] :
      files \in {<< >>, <<FilePath, SrcPath>>},
      dirs \in SeqsUpTo({<<Root, "build", "out">>, SrcPath}, MaxLen),
      shortcuts \in {<< >>, <<WixShortcut("doc", << >>),
                              WixShortcut("app", IconPath)>>}}

InitPaths ==
    /\ wixFile \in PathManifests
    /\ orig = wixFile
    /\ nextGuid = 1
    /\ log = << >>

NextPaths == RewriteFilePaths

SpecPaths == InitPaths /\ [][NextPaths]_vars

(***************************************************************************)
(* Load (lines 94-110).  A document is the set of the keys it holds (a key *)
(* of a nested object is written section.key: an object that is absent,    *)
(* and one that holds none of its keys, both leave the section as it is)   *)
(* and the values of those keys, given as the manifest val that holds      *)
(* them.  json.Unmarshal decodes into the existing structure: it assigns   *)
(* the fields whose keys the document holds and no other; the fields       *)
(* tagged json:"-" have no key.                                            *)
(***************************************************************************)
Keys ==
    {"product", "company", "version", "license", "upgrade-code",
     "files.guid", "files.items", "directories", "env.guid", "env.vars",
     "shortcuts.guid", "shortcuts.items", "choco.id", "choco.title",
     "choco.authors", "choco.owners", "choco.description",
     "choco.project-url", "choco.tags", "choco.license-url",
     "choco.icon-url", "choco.require-license"}

\* The field of manifest w that the struct tags (lines 14-73) give key k.
Field(w, k) ==
    CASE k = "product" -> w.Product
      [] k = "company" -> w.Company
      [] k = "version" -> w.Version
      [] k = "license" -> w.License
      [] k = "upgrade-code" -> w.UpgradeCode
      [] k = "files.guid" -> w.Files.Guid
      [] k = "files.items" -> w.Files.Items
      [] k = "directories" -> w.Directories
      [] k = "env.guid" -> w.Env.Guid
      [] k = "env.vars" -> w.Env.Vars
      [] k = "shortcuts.guid" -> w.Shortcuts.Guid
      [] k = "shortcuts.items" -> w.Shortcuts.Items
      [] k = "choco.id" -> w.Choco.Id
      [] k = "choco.title" -> w.Choco.Title
      [] k = "choco.authors" -> w.Choco.Authors
      [] k = "choco.owners" -> w.Choco.Owners
      [] k = "choco.description" -> w.Choco.Description
      [] k = "choco.project-url" -> w.Choco.ProjectUrl
      [] k = "choco.tags" -> w.Choco.Tags
      [] k = "choco.license-url" -> w.Choco.LicenseUrl
      [] k = "choco.icon-url" -> w.Choco.IconUrl
      [] k = "choco.require-license" -> w.Choco.RequireLicense

\* json.Unmarshal(dat, &wixFile) of a well-formed document (line 105).
Unmarshal(w, keys, val) ==
    LET Pick(k) == IF k \in keys THEN Field(val, k) ELSE Field(w, k)
    IN  [Product |-> Pick("product"),
         Company |-> Pick("company"),
         Version |-> Pick("version"),
         VersionOk |-> w.VersionOk,
         License |-> Pick("license"),
         UpgradeCode |-> Pick("upgrade-code"),
         Files |-> [Guid |-> Pick("files.guid"),
                    Items |-> Pick("files.items")],
         Directories |-> Pick("directories"),
         RelDirs |-> w.RelDirs,
         Env |-> [Guid |-> Pick("env.guid"), Vars |-> Pick("env.vars")],
         Shortcuts |-> [Guid |-> Pick("shortcuts.guid"),
                        Items |-> Pick("shortcuts.items")],
         Choco |-> [Id |-> Pick("choco.id"),
                    Title |-> Pick("choco.title"),
                    Authors |-> Pick("choco.authors"),
                    Owners |-> Pick("choco.owners"),
                    Description |-> Pick("choco.description"),
                    ProjectUrl |-> Pick("choco.project-url"),
                    Tags |-> Pick("choco.tags"),
                    LicenseUrl |-> Pick("choco.license-url"),
                    IconUrl |-> Pick("choco.icon-url"),
                    RequireLicense |-> Pick("choco.require-license"),
                    MsiFile |-> w.Choco.MsiFile,
                    BuildDir |-> w.Choco.BuildDir,
                    ChangeLog |-> w.Choco.ChangeLog]]

\* Lines 95-97: the default file name.
LoadPath(p) == IF p = "" THEN "wix.json" ELSE p

\* The file at the path: missing, unreadable, not a JSON document
\* (malformed), a document whose "version" is not a string (mistyped: the
\* decoder skips that field, decodes the rest and returns the type error),
\* or a document of the manifest's shape.
LoadRun(w, file) ==
    CASE file.kind = "missing" -> [w |-> w, err |-> "NotExist"]
      [] file.kind = "unreadable" -> [w |-> w, err |-> "ReadError"]
      [] file.kind = "malformed" -> [w |-> w, err |-> "SyntaxError"]
      [] file.kind = "mistyped" ->
           [w |-> Unmarshal(w, file.keys \ {"version"}, file.val),
            err |-> "UnmarshalTypeError"]
      [] file.kind = "ok" ->
           [w |-> Unmarshal(w, file.keys, file.val), err |-> Nil]

\* The values of the documents: set ones, and explicit zero values for
\* "license", "directories", "choco.tags" and "choco.require-license".
DocValues ==
    [Product |-> "App", Company |-> "Acme",
     Version |-> <<"1", ".", "2", ".", "3">>, VersionOk |-> << >>,
     License |-> "", UpgradeCode |-> <<7>>,
     Files |-> [Guid |-> <<8>>, Items |-> <<<<"a.txt">>>>],
     Directories |-> << >>, RelDirs |-> << >>,
     Env |-> [Guid |-> <<9>>, Vars |-> <<WixEnv("PATH")>>],
     Shortcuts |-> [Guid |-> <<10>>,
                    Items |-> <<WixShortcut("app", <<"app.ico">>)>>],
     Choco |-> [ZeroChoco EXCEPT
                  !.Id = "app", !.Title = "App", !.Authors = "me",
                  !.Owners = "us", !.Description = "An app",
                  !.ProjectUrl = "http://app", !.LicenseUrl = "http://lic",
                  !.IconUrl = "http://ico"]]

\* What the manifest may hold before a Load: every field set.
OldManifest ==
    [Product |-> "Old", Company |-> "OldCo",
     Version |-> <<"0", ".", "9">>, VersionOk |-> <<"0", ".", "9", ".", "0">>,
     License |-> "LICENSE", UpgradeCode |-> OldGuid,
     Files |-> [Guid |-> OldGuid, Items |-> <<<<"old.txt">>>>],
     Directories |-> <<<<"olddir">>>>, RelDirs |-> <<<<"..", "olddir">>>>,
     Env |-> [Guid |-> OldGuid, Vars |-> <<WixEnv("OLD")>>],
     Shortcuts |-> [Guid |-> OldGuid,
                    Items |-> <<WixShortcut("old", << >>)>>],
     Choco |-> [Id |-> "old", Title |-> "Old", Authors |-> "them",
                Owners |-> "them", Description |-> "Old app",
                ProjectUrl |-> "http://old", Tags |-> <<"old">>,
                LicenseUrl |-> "http://oldlic", IconUrl |-> "http://oldico",
                RequireLicense |-> TRUE, MsiFile |-> "old.msi",
                BuildDir |-> "build", ChangeLog |-> "log"]]

\* The subsets of S of at most n elements.
RECURSIVE SubsetsUpTo(_, _)
SubsetsUpTo(S, n) ==
    IF n = 0 THEN {{}}
    ELSE LET smaller == SubsetsUpTo(S, n - 1)
         IN  smaller \cup {s \cup {x} : s \in smaller, x \in S}

KeySets ==
    SubsetsUpTo(Keys, MaxKeys)
      \cup {Keys \ ks : ks \in SubsetsUpTo(Keys, MaxKeys)}

DiskFiles ==
    {[kind |-> k, keys |-> {}, val |-> DocValues] :
       k \in {"missing", "unreadable", "malformed"}}
      \cup {[kind |-> "ok", keys |-> ks, val |-> DocValues] : ks \in KeySets}
      \cup {[kind |-> "mistyped", keys |-> ks, val |-> DocValues] :
              ks \in {x \in KeySets : "version" \in x}}

Load ==
    /\ Len(log) < MaxLoads
    /\ \E p \in {"", "my.json"}, file \in DiskFiles :
         LET r == LoadRun(wixFile, file)
         IN  /\ wixFile' = r.w
             /\ log' = Append(log, CallWith("Load", r.err, FALSE, 0,
                                [p |-> LoadPath(p), keys |-> file.keys,
                                 val |-> file.val]))
    /\ UNCHANGED <<orig, nextGuid>>

InitLoad ==
    /\ wixFile \in {ZeroManifest, OldManifest}
    /\ orig = wixFile
    /\ nextGuid = 1
    /\ log = << >>

NextLoad == Load

SpecLoad == InitLoad /\ [][NextLoad]_vars

(***************************************************************************)
(* The whole program: a manifest constructed empty, and any of its methods *)
(* called in any order.  The specifications above start each component     *)
(* from every manifest of its bounded family at once (the fields are       *)
(* exported, and Load can set them), which reaches the component's cases   *)
(* without first enumerating the documents that lead to them.              *)
(***************************************************************************)
Init ==
    /\ wixFile = ZeroManifest
    /\ orig = wixFile
    /\ nextGuid = 1
    /\ log = << >>

Next == Load \/ SetGuids \/ NeedGuid \/ RewriteFilePaths \/ Normalize

Spec == Init /\ [][Next]_vars

(***************************************************************************)
(* Properties of the identifier provisioner.                               *)
(***************************************************************************)
\* The step of the behaviour is a call of op.
Step(op) == Len(log') = Len(log) + 1 /\ Last(log').op = op

\* The four identifier slots, in the order of the code, and whether each is
\* required.
Slots(w) == <<w.UpgradeCode, w.Files.Guid, w.Env.Guid, w.Shortcuts.Guid>>
Required(w) ==
    <<TRUE, TRUE, Len(w.Env.Vars) > 0, Len(w.Shortcuts.Items) > 0>>
IsMissing(w, i) == Slots(w)[i] = << >> /\ Required(w)[i]
MissingSlots(w) == SelectSeq(<<1, 2, 3, 4>>, LAMBDA i : IsMissing(w, i))

\* C1 as stated: of two SetGuids calls in succession, the second returns
\* changed = false and no error and leaves the four slots as they were.
C1_SecondCallNoOp ==
    [][(Called("SetGuids") /\ Step("SetGuids"))
        => /\ Last(log').flag = FALSE
           /\ Last(log').err = Nil
           /\ Slots(wixFile') = Slots(wixFile)]_vars

\* C1 amended: of two SetGuids calls in succession, the first of which
\* returned no error, the second returns changed = false and no error, makes
\* no generator call and leaves the four slots as they were.
C1_SecondCallNoOpAfterSuccess ==
    [][(Called("SetGuids") /\ Last(log).err = Nil /\ Step("SetGuids"))
        => /\ Last(log').flag = FALSE
           /\ Last(log').err = Nil
           /\ Last(log').made = 0
           /\ Slots(wixFile') = Slots(wixFile)]_vars

C1_Witness ==
    /\ Len(log) >= 2
    /\ log[Len(log) - 1] = Call("SetGuids", Nil, TRUE, 3)
    /\ Last(log) = Call("SetGuids", Nil, FALSE, 0)
    /\ wixFile.Env.Guid # << >>

\* C2: NeedGuid returns false exactly when UpgradeCode and Files.Guid are
\* non-empty, Env.Guid is non-empty or Env.Vars is empty, and Shortcuts.Guid
\* is non-empty or Shortcuts.Items is empty; the call changes no field.
C2_NeedGuidIff ==
    [][Step("NeedGuid")
        => /\ wixFile' = wixFile
           /\ (Last(log').flag = FALSE) <=>
                (/\ wixFile.UpgradeCode # << >>
                 /\ wixFile.Files.Guid # << >>
                 /\ (wixFile.Env.Guid # << >> \/ wixFile.Env.Vars = << >>)
                 /\ (wixFile.Shortcuts.Guid # << >>
                       \/ wixFile.Shortcuts.Items = << >>))]_vars

C2_Witness ==
    /\ Called("NeedGuid")
    /\ Last(log).flag = FALSE
    /\ wixFile.Env.Guid = << >>
    /\ wixFile.Shortcuts.Guid = << >>

\* C3 as stated: whatever the error result, SetGuids returns changed = true
\* exactly when the call filled at least one of the four slots.
C3_ChangedIffFilled ==
    [][Step("SetGuids")
        => (Last(log').flag = TRUE) <=>
             (\E i \in 1..4 : /\ Slots(wixFile)[i] = << >>
                              /\ Slots(wixFile')[i] # << >>)]_vars

\* C4: SetGuids takes the missing slots in the order UpgradeCode,
\* Files.Guid, Env.Guid, Shortcuts.Guid, one generator call each.  With no
\* failure every missing slot is filled.  When the k-th generator call fails
\* the call returns that error after exactly k generator calls, the k - 1
\* missing slots before it hold their new identifiers and the missing slots
\* from the k-th on stay empty.  No slot that was non-empty is changed.
C4_AbortKeepsEarlierSlots ==
    [][Step("SetGuids")
        => LET b == Slots(wixFile)
               a == Slots(wixFile')
               miss == MissingSlots(wixFile)
               r == Last(log')
               filled == IF r.err = Nil THEN r.made ELSE r.made - 1
           IN  /\ \A i \in 1..4 : ~IsMissing(wixFile, i) => a[i] = b[i]
               /\ r.err \in {Nil, "GenerationError"}
               /\ r.err = Nil => r.made = Len(miss)
               /\ r.err # Nil => r.made \in 1..Len(miss)
               /\ \A j \in 1..Len(miss) :
                    a[miss[j]] = IF j <= filled THEN <<nextGuid + j - 1>>
                                 ELSE << >>]_vars

C4_Witness ==
    /\ Called("SetGuids")
    /\ Last(log).err = "GenerationError"
    /\ Last(log).made = 3
    /\ wixFile.UpgradeCode = <<1>>
    /\ wixFile.Files.Guid = <<2>>
    /\ wixFile.Env.Guid = << >>
    /\ wixFile.Env.Vars # << >>
    /\ wixFile.Shortcuts.Guid = << >>
    /\ wixFile.Shortcuts.Items # << >>

(***************************************************************************)
(* Properties of the field normalizer.                                     *)
(***************************************************************************)
NormalizeCalls == {i \in 1..Len(log) : log[i].op = "Normalize"}
NormalizeReturns == {i \in NormalizeCalls : log[i].err = Nil}

RECURSIVE Repeat(_, _)
Repeat(x, n) == IF n = 0 THEN << >> ELSE Append(Repeat(x, n - 1), x)

\* C5: for every version string major.minor.patch with any pre-release and
\* build-metadata suffix, Normalize returns no error, sets VersionOk to
\* "major.minor.patch" and leaves Version as it was.
C5_VersionOkIsNumericCore ==
    [][Step("Normalize")
        => \A e \in SemVers :
             e.version = wixFile.Version
               => /\ Last(log').err = Nil
                  /\ wixFile'.VersionOk =
                       SemVerString(e.major, e.minor, e.patch, << >>, << >>)
                  /\ wixFile'.Version = wixFile.Version]_vars

C5_Witness ==
    /\ Called("Normalize")
    /\ Last(log).err = Nil
    /\ wixFile.Version =
         <<"1", "2", ".", "0", ".", "2", "-">> \o Str_beta \o <<"+">> \o Str_001
    /\ wixFile.VersionOk = <<"1", "2", ".", "0", ".", "2">>

\* C6 as stated: once Normalize has been called, VersionOk is three numbers
\* separated by ".", the major, minor and patch of Version.
C6_VersionOkAlwaysNumeric ==
    NormalizeCalls # {}
      => /\ Len(Split(wixFile.VersionOk, ".")) = 3
         /\ \A i \in 1..3 : IsNumber(Split(wixFile.VersionOk, ".")[i])
         /\ \A e \in SemVers :
              e.version = wixFile.Version
                => wixFile.VersionOk =
                     SemVerString(e.major, e.minor, e.patch, << >>, << >>)

\* C7 as stated: every Normalize call appends one " admin", so the tag
\* string is the original one followed by one " admin" per call.
C7_TagPerCall ==
    wixFile.Choco.Tags =
      orig.Choco.Tags \o Repeat(" admin", Cardinality(NormalizeCalls))

\* C7 amended: every Normalize call that returns no error appends one
\* " admin" and a call that returns an error appends nothing, so the tag
\* string is the original one followed by one " admin" per call that
\* returned no error.
C7_TagPerReturn ==
    wixFile.Choco.Tags =
      orig.Choco.Tags \o Repeat(" admin", Cardinality(NormalizeReturns))

C7_Witness ==
    /\ Cardinality(NormalizeReturns) = 2
    /\ orig.Choco.Tags = <<"cli">>
    /\ wixFile.Choco.Tags = <<"cli", " admin", " admin">>

\* C8: a Normalize that returns no error sets Choco.Id, Choco.Title and
\* Choco.Description to Product where they were empty, Choco.Authors and
\* Choco.Owners to Company where they were empty, keeps each of them that
\* was not empty, and leaves Product, Company, License, ProjectUrl,
\* LicenseUrl, IconUrl and RequireLicense as they were.
C8_ChocoDefaults ==
    [][(Step("Normalize") /\ Last(log').err = Nil)
        => LET b == wixFile
               a == wixFile'
               Default(old, new) == IF old = "" THEN new ELSE old
           IN  /\ a.Choco.Id = Default(b.Choco.Id, b.Product)
               /\ a.Choco.Title = Default(b.Choco.Title, b.Product)
               /\ a.Choco.Description = Default(b.Choco.Description, b.Product)
               /\ a.Choco.Authors = Default(b.Choco.Authors, b.Company)
               /\ a.Choco.Owners = Default(b.Choco.Owners, b.Company)
               /\ a.Product = b.Product
               /\ a.Company = b.Company
               /\ a.License = b.License
               /\ a.Choco.ProjectUrl = b.Choco.ProjectUrl
               /\ a.Choco.LicenseUrl = b.Choco.LicenseUrl
               /\ a.Choco.IconUrl = b.Choco.IconUrl
               /\ a.Choco.RequireLicense = b.Choco.RequireLicense]_vars

C8_Witness ==
    /\ Len(log) = 1
    /\ Called("Normalize")
    /\ Last(log).err = Nil
    /\ orig.Product = "App"
    /\ orig.Choco.Id = "" /\ orig.Choco.Title = "title"
    /\ orig.Choco.Authors = "" /\ orig.Choco.Owners = "us"
    /\ orig.Choco.Description = ""
    /\ wixFile.Choco.Id = "App" /\ wixFile.Choco.Title = "title"
    /\ wixFile.Choco.Authors = "Acme" /\ wixFile.Choco.Owners = "us"
    /\ wixFile.Choco.Description = "App"

(***************************************************************************)
(* Properties of the path normalizer.                                      *)
(***************************************************************************)
\* The output-relative form of path p in a call with arguments arg.
Relative(p, arg) == Rel(arg.out, Abs(p, arg.env).path).path

\* C10: RewriteFilePaths never changes Directories and never removes or
\* changes an entry of RelDirs, and keeps the lengths of Files.Items and
\* Shortcuts.Items; a call that returns no error appends to RelDirs the
\* output-relative form of every directory, in the order of Directories,
\* overwrites every file and every non-empty icon with its output-relative
\* form and leaves an empty icon empty; so after k calls, all returning no
\* error, RelDirs holds k * Len(Directories) entries.
C10_RelDirsAppendOnly ==
    /\ [][Step("RewriteFilePaths")
           => LET b == wixFile
                  a == wixFile'
                  r == Last(log')
              IN  /\ a.Directories = b.Directories
                  /\ Len(a.RelDirs) >= Len(b.RelDirs)
                  /\ SubSeq(a.RelDirs, 1, Len(b.RelDirs)) = b.RelDirs
                  /\ Len(a.Files.Items) = Len(b.Files.Items)
                  /\ Len(a.Shortcuts.Items) = Len(b.Shortcuts.Items)
                  /\ r.err = Nil =>
                       /\ a.RelDirs = b.RelDirs \o
                            [i \in 1..Len(b.Directories) |->
                               Relative(b.Directories[i], r.arg)]
                       /\ a.Files.Items =
                            [i \in 1..Len(b.Files.Items) |->
                               Relative(b.Files.Items[i], r.arg)]
                       /\ \A i \in 1..Len(b.Shortcuts.Items) :
                            a.Shortcuts.Items[i].Icon =
                              IF b.Shortcuts.Items[i].Icon = << >> THEN << >>
                              ELSE Relative(b.Shortcuts.Items[i].Icon, r.arg)]_vars
    /\ []((\A i \in 1..Len(log) :
              log[i].op = "RewriteFilePaths" /\ log[i].err = Nil)
            => /\ wixFile.Directories = orig.Directories
               /\ Len(wixFile.RelDirs) = Len(log) * Len(wixFile.Directories))

C10_Witness ==
    /\ Len(log) = 2
    /\ \A i \in 1..2 : log[i].op = "RewriteFilePaths" /\ log[i].err = Nil
    /\ log[1].arg.env.cwd # log[2].arg.env.cwd
    /\ wixFile.Directories = <<<<Root, "build", "out">>, SrcPath>>
    /\ wixFile.RelDirs =
         <<<<".">>, <<"..", "src", "b">>, <<".">>, <<"..", "..", "home", "src", "b">>>>
    /\ wixFile.Files.Items # << >>
    /\ wixFile.Shortcuts.Items # << >>

(***************************************************************************)
(* Properties of Load.                                                     *)
(***************************************************************************)
\* C9 as stated: after a Load that returns no error, whatever the manifest
\* held before, every persisted field whose key the document does not hold
\* has its zero value and every persisted field whose key it holds has the
\* document's value.
C9_AbsentKeysZero ==
    (Called("Load") /\ Last(log).err = Nil)
      => \A k \in Keys :
           Field(wixFile, k) =
             IF k \in Last(log).arg.keys THEN Field(Last(log).arg.val, k)
             ELSE Field(ZeroManifest, k)

=============================================================================
